---- MODULE Spec2Model ----
(***************************************************************************)
(* Verification model of the GPU assembler toolchain (design/assembler):   *)
(*   isa.py             instruction word encode / decode                   *)
(*   ptx_parser.py      PTXParser, first-seen register allocation          *)
(*   v3/compile_gpu.py  provenance-aware translate / encode / assemble     *)
(*   simulator          execution engine (spec section 4.3)                *)
(*                                                                         *)
(* Python integers are unbounded; an integer that takes part in shifts and *)
(* bitwise operations is represented by the set of positions of its 1 bits *)
(* (bit 0 = least significant), so that x << k, x >> k, x | y and x & y    *)
(* are computed exactly as Python computes them.                           *)
(***************************************************************************)
EXTENDS Integers, Sequences, FiniteSets, TLC

VARIABLES
    \* ---- isa.py: one encode / decode call chain
    opcode, dtype, rd, rs1, rs2,   \* arguments of encode
    word,                          \* what encode returned: Word(bits) or NoWord
    fields,                        \* dict returned by decode, or NoFields
    isa_pc,                        \* "idle" | "start" | "encoded" | "failed" | "decoded"
    \* ---- ptx_parser.py: one PTXParser.parse call
    reg_map,                       \* self._reg_map : name -> physical number
    warnings,                      \* self._warnings
    instructions,                  \* local list `instructions`
    lineno,                        \* number of source lines consumed so far
    ptx_pc,                        \* "idle" | "parsing" | "returned" | "raised"
    ptx_err,                       \* the name carried by the ValueError, or NoName
    first_seen,                    \* history: distinct operand names in encounter order
    parsed_from,                   \* history: the source line of each record
    countable,                     \* history: consumed lines that are non-blank, non-denied
    consumed,                      \* history (SpecPtxKinds): the source lines consumed so far
    \* ---- v3/compile_gpu.py: translate(body, kernel_name, ptx_text) then assemble
    nparams,                       \* len(get_param_names(ptx_text, kernel_name))
    body,                          \* body.splitlines()
    alias,                         \* build_alias: alias
    changed,                       \* build_alias: changed
    tr,                            \* translate: rmap, used, nxt, insns, emitted, printed warnings
    words,                         \* list returned by assemble
    v3_pc,                         \* "idle" | "scan" | "fixpoint" | "translated" | "assembled"
    \* ---- execution engine: one GPUSim(prog, max_cycles=...).run()
    prog,                          \* instruction words
    pc,                            \* program counter (word index)
    regfile,                       \* 16 registers
    dmem,                          \* data memory: <<word index, value>> pairs, absent = 0
    cycle,                         \* cycle counter
    busy,                          \* busy countdown of the multiply unit
    pending,                       \* result the multiply unit will commit
    max_cycles,                    \* caller-supplied maximum
    run_status,                    \* "idle" | "running" | "halted" | "max_cycles" | "fault"
    fault_addr,                    \* byte address reported by a fatal memory access
    executed,                      \* history: opcodes of the instructions issued
    \* ---- v3/compile_gpu.py main: the load image writer
    all_words,                     \* main: all_words
    sections,                      \* main: sections (word count of each kernel)
    addr,                          \* main: addr
    mem_file,                      \* the .mem file: its lines, or NoFile
    img_pc,                        \* "idle" | "loop" | "written" | "rejected"
    \* ---- one record assembled by isa.instruction and by v3 assemble
    ag_rec,                        \* the instruction record {op, rd, rs1, rs2}
    ag_isa,                        \* what isa.instruction returned, or NoWord
    ag_v3,                         \* the list v3 assemble returned
    ag_pc,                         \* set of the assemblers that have run
    \* ---- isa.py: decode and disasm of an arbitrary 32-bit word
    dis_parts,                     \* the nibbles [31:12] and the bits [11:0] the word is made of
    dis_word,                      \* the word
    dis_fields,                    \* dict returned by decode, or NoFields
    dis_text,                      \* string returned by disasm, or NoText
    dis_pc,                        \* set of the functions that have run
    \* ---- gpu_toolchain.py: one parse_asm call
    asm_text,                      \* history: the source lines consumed so far
    asm_instructions,              \* local list `instructions`
    asm_from,                      \* history: the line number of each record
    asm_reported,                  \* line numbers printed as unrecognised
    asm_pc,                        \* "idle" | "parsing" | "returned"
    \* ---- ptx_parser.py: one PTXParser instance over several parse calls
    prior_calls,                   \* history: parse calls on the instance before this one
    prior_raised                   \* history: one of them raised the ValueError of _reg

isaVars == <<opcode, dtype, rd, rs1, rs2, word, fields, isa_pc>>
ptxVars == <<reg_map, warnings, instructions, lineno, ptx_pc, ptx_err,
             first_seen, parsed_from, countable, consumed>>
v3Vars == <<nparams, body, alias, changed, tr, words, v3_pc>>
simVars == <<prog, pc, regfile, dmem, cycle, busy, pending, max_cycles, run_status,
             fault_addr, executed>>
imgVars == <<all_words, sections, addr, mem_file, img_pc>>
\* the components added to the four above
agrVars == <<ag_rec, ag_isa, ag_v3, ag_pc>>
disVars == <<dis_parts, dis_word, dis_fields, dis_text, dis_pc>>
asmVars == <<asm_text, asm_instructions, asm_from, asm_reported, asm_pc>>
reuseVars == <<prior_calls, prior_raised>>
restVars == <<imgVars, agrVars, disVars, asmVars, reuseVars>>

(***************************************************************************)
(* Bounds of the model                                                     *)
(***************************************************************************)
\* largest field value handed to encode (the first value past the 4-bit range)
MaxField == 16

(***************************************************************************)
(* Python integer bit operations on bit sets                               *)
(***************************************************************************)
Pow2(k) == 2 ^ k

\* the bit set of a non-negative integer n < 2^8 (field values are small)
ToBits(n) == { i \in 0..7 : (n \div Pow2(i)) % 2 = 1 }

Shl(bits, k) == { i + k : i \in bits }

Shr(bits, k) == { i - k : i \in { j \in bits : j >= k } }

BitOr(a, b) == a \cup b

BitAnd(a, b) == a \cap b

RECURSIVE ToNat(_)
ToNat(bits) ==
    IF bits = {} THEN 0
    ELSE LET i == CHOOSE j \in bits : TRUE
         IN  Pow2(i) + ToNat(bits \ {i})

(***************************************************************************)
(* isa.py                                                                  *)
(***************************************************************************)
\* a raised AssertionError: the call returns no word
NoWord == [raised |-> TRUE, bits |-> {}]
\* decode has not been called
NoFields == [opcode |-> -1, dtype |-> -1, rd |-> -1, rs1 |-> -1, rs2 |-> -1]

Word(bits) == [raised |-> FALSE, bits |-> bits]

\* mutant: the assertion on rs2 is missing
EncodeAssertsNoRs2(oc, dt, d, s1, s2) ==
    /\ 0 <= oc /\ oc <= 15
    /\ 0 <= dt /\ dt <= 15
    /\ 0 <= d  /\ d  <= 15
    /\ 0 <= s1 /\ s1 <= 15
    /\ 0 <= s2

\* isa.py encode, lines 68-72: the five assertions
EncodeAsserts(oc, dt, d, s1, s2) ==
    /\ 0 <= oc /\ oc <= 15
    /\ 0 <= dt /\ dt <= 15
    /\ 0 <= d  /\ d  <= 15
    /\ 0 <= s1 /\ s1 <= 15
    /\ 0 <= s2 /\ s2 <= 15

\* mutant: rs1 packed at bit 12, on top of rs2
PackRs1At12(oc, dt, d, s1, s2) ==
    BitOr(BitOr(BitOr(BitOr(Shl(ToBits(oc), 28), Shl(ToBits(dt), 24)),
                      Shl(ToBits(d), 20)), Shl(ToBits(s1), 12)), Shl(ToBits(s2), 12))

\* isa.py line 73 (and v3/compile_gpu.py line 50): the packing expression
Pack(oc, dt, d, s1, s2) ==
    BitOr(BitOr(BitOr(BitOr(Shl(ToBits(oc), 28), Shl(ToBits(dt), 24)),
                      Shl(ToBits(d), 20)), Shl(ToBits(s1), 16)), Shl(ToBits(s2), 12))

\* isa.py encode: the word, or NoWord when an assertion fails
encode(oc, dt, d, s1, s2) ==
    IF EncodeAsserts(oc, dt, d, s1, s2) THEN Word(Pack(oc, dt, d, s1, s2)) ELSE NoWord

Mask4 == ToBits(15)

\* isa.py decode
decode(w) ==
    [opcode |-> ToNat(BitAnd(Shr(w, 28), Mask4)),
     dtype  |-> ToNat(BitAnd(Shr(w, 24), Mask4)),
     rd     |-> ToNat(BitAnd(Shr(w, 20), Mask4)),
     rs1    |-> ToNat(BitAnd(Shr(w, 16), Mask4)),
     rs2    |-> ToNat(BitAnd(Shr(w, 12), Mask4))]

\* isa.py disasm. The string returned is modelled by its parts: the mnemonic,
\* the operands in text order (a register `rN` or a memory operand `[rN]`)
\* and the trailing comment.
Reg(n) == [form |-> "r", n |-> n]
Mem(n) == [form |-> "[r]", n |-> n]
Text(name, ops, note) == [name |-> name, ops |-> ops, note |-> note]
NoText == Text("", <<>>, "")

\* f"OP{opcode:X}"
PlaceholderName(oc) ==
    <<"OP0", "OP1", "OP2", "OP3", "OP4", "OP5", "OP6", "OP7",
      "OP8", "OP9", "OPA", "OPB", "OPC", "OPD", "OPE", "OPF">>[oc + 1]

\* mutant: an opcode missing from the table gets the bare placeholder
OpcodeNameUnnumbered(oc) ==
    CASE oc = 0 -> "VADD" [] oc = 1 -> "VSUB" [] oc = 2 -> "VMUL" [] oc = 3 -> "FMAC"
      [] oc = 4 -> "RELU" [] oc = 5 -> "LD"   [] oc = 6 -> "ST"   [] oc = 15 -> "HALT"
      [] OTHER -> "OP"

\* OPCODE_TO_NAME.get(opcode, f"OP{opcode:X}")
OpcodeName(oc) ==
    CASE oc = 0 -> "VADD" [] oc = 1 -> "VSUB" [] oc = 2 -> "VMUL" [] oc = 3 -> "FMAC"
      [] oc = 4 -> "RELU" [] oc = 5 -> "LD"   [] oc = 6 -> "ST"   [] oc = 15 -> "HALT"
      [] OTHER -> PlaceholderName(oc)

disasm(w) ==
    LET d == decode(w)
        oc == d.opcode
    IN  IF oc = 15 THEN Text("HALT", <<>>, "")
        ELSE IF oc = 5 THEN Text("LD", <<Reg(d.rd), Mem(d.rs1)>>, "")
        ELSE IF oc = 6 THEN Text("ST", <<Mem(d.rs1), Reg(d.rs2)>>, "")
        ELSE IF oc = 4 THEN Text("RELU", <<Reg(d.rd), Reg(d.rs1)>>, "")
        ELSE IF oc = 3
        THEN Text("FMAC", <<Reg(d.rd), Reg(d.rs1), Reg(d.rs2)>>, "; rd = rs1*rs2 + rd")
        ELSE Text(OpcodeName(oc), <<Reg(d.rd), Reg(d.rs1), Reg(d.rs2)>>, "")

\* the words decode and disasm are tried on: every opcode, dtypes in and out of
\* DTYPE_DEC, register nibbles, and garbage in the unused bits [11:0]
DisParts ==
    [opcode : 0..15, dtype : {0, 1, 9, 15}, rd : {0, 6, 15}, rs1 : {0, 9, 15},
     rs2 : {0, 3, 15}, low : {{}, {0}, {11}, 0..11}]

WordOfParts(q) == Pack(q.opcode, q.dtype, q.rd, q.rs1, q.rs2) \cup q.low

DisDecode ==
    /\ "decode" \notin dis_pc
    /\ dis_fields' = decode(dis_word)
    /\ dis_pc' = dis_pc \cup {"decode"}
    /\ UNCHANGED <<dis_parts, dis_word, dis_text>>

DisDisasm ==
    /\ "disasm" \notin dis_pc
    /\ dis_text' = disasm(dis_word)
    /\ dis_pc' = dis_pc \cup {"disasm"}
    /\ UNCHANGED <<dis_parts, dis_word, dis_fields>>

DisFresh == dis_fields = NoFields /\ dis_text = NoText /\ dis_pc = {}

DisIdle ==
    /\ DisFresh /\ dis_word = {}
    /\ dis_parts = [opcode |-> 0, dtype |-> 0, rd |-> 0, rs1 |-> 0, rs2 |-> 0, low |-> {}]

\* argument values tried for opcode and dtype: every 4-bit value and both neighbours
FieldVals == (-1)..MaxField

\* argument values tried for rd, rs1, rs2
RegVals == {-1, 0, 1, 5, 10, 15, MaxField}

(***************************************************************************)
(* ptx_parser.py : PTXParser                                               *)
(*                                                                         *)
(* A source line is modelled by what the regular expressions of parse and  *)
(* _try_parse_line make of it: its kind (which pattern matches it first)   *)
(* and the register names the pattern's groups capture, in text order.     *)
(*   "blank"  empty once the comment and the trailing ';' are stripped     *)
(*   "skip"   matched by one of _SKIP_PATTERNS                             *)
(*   "ret" "ld" "st" "add" "sub" "mul" "fma" "max"   the allow-list        *)
(*   "ld16" "st16"  ld.global / st.global of a type that is not 64 bits    *)
(*            wide, matched by the same patterns as "ld" and "st"          *)
(*   "other"  matched by nothing                                           *)
(* Register names are the numbers 1..NumNames.                             *)
(***************************************************************************)
\* number of distinct virtual register names a translation unit can use
NumNames == 18
\* number of source lines of a translation unit
MaxLines == 6

Names == 1..NumNames
NoName == 0
\* a key that is not in the dict
Absent == -1

Line(kind, args) == [kind |-> kind, args |-> args]

Range(f) == { f[i] : i \in DOMAIN f }

\* len(self._reg_map)
DictLen(map) == Cardinality({ n \in DOMAIN map : map[n] # Absent })

\* mutant: the limit test lets one more name through
RegLimitOffByOne(n) == n > 16

\* ptx_parser.py line 125: `if n >= 16`
RegLimit(n) == n >= 16

\* mutant: numbering starts at 1
NextNumberFromOne(map) == DictLen(map) + 1

\* ptx_parser.py line 124: `n = len(self._reg_map)`
NextNumber(map) == DictLen(map)

\* PTXParser._reg: the dict after the call, the number returned, and the name
\* carried by the ValueError if it raised
reg(map, name) ==
    IF map[name] # Absent
    THEN [map |-> map, num |-> map[name], raised |-> NoName]
    ELSE LET n == NextNumber(map)
         IN  IF RegLimit(n)
             THEN [map |-> map, num |-> Absent, raised |-> name]
             ELSE [map |-> [map EXCEPT ![name] = n], num |-> n, raised |-> NoName]

\* the calls of _reg one line makes, left to right; a raise abandons the rest
RECURSIVE RegSeq(_, _, _)
RegSeq(map, names, nums) ==
    IF names = <<>>
    THEN [map |-> map, nums |-> nums, raised |-> NoName]
    ELSE LET r == reg(map, Head(names))
         IN  IF r.raised # NoName
             THEN [map |-> r.map, nums |-> nums, raised |-> r.raised]
             ELSE RegSeq(r.map, Tail(names), Append(nums, r.num))

\* the names a matching pattern passes to _reg, in evaluation order
\* (fma: groups 1..3; the accumulator, group 4, is never mapped)
RegOperands(line) ==
    IF line.kind = "fma" THEN SubSeq(line.args, 1, 3)
    ELSE IF line.kind \in {"ld", "st", "ld16", "st16", "add", "sub", "mul", "max"}
    THEN line.args
    ELSE <<>>

Mnemonic(kind) ==
    CASE kind = "ret" -> "HALT" [] kind \in {"ld", "ld16"} -> "LD"
      [] kind \in {"st", "st16"} -> "ST"
      [] kind = "add" -> "VADD" [] kind = "sub" -> "VSUB" [] kind = "mul" -> "VMUL"
      [] kind = "fma" -> "FMAC" [] kind = "max" -> "RELU"

Record(op, d, s1, s2) == [op |-> op, rd |-> d, rs1 |-> s1, rs2 |-> s2]

\* the dict a matching pattern of _try_parse_line builds from the numbers
BuildRecord(kind, nums) ==
    CASE kind = "ret" -> Record("HALT", 0, 0, 0)
      [] kind \in {"ld", "ld16"} -> Record("LD", nums[1], nums[2], 0)
      [] kind \in {"st", "st16"} -> Record("ST", 0, nums[1], nums[2])
      [] kind = "max" -> Record("RELU", nums[1], nums[2], 0)
      [] OTHER        -> Record(Mnemonic(kind), nums[1], nums[2], nums[3])

NoRecord == Record("None", 0, 0, 0)

\* PTXParser._try_parse_line
try_parse_line(map, line) ==
    IF line.kind = "other"
    THEN [map |-> map, ins |-> NoRecord, raised |-> NoName]
    ELSE LET r == RegSeq(map, RegOperands(line), <<>>)
         IN  IF r.raised # NoName
             THEN [map |-> r.map, ins |-> NoRecord, raised |-> r.raised]
             ELSE [map |-> r.map, ins |-> BuildRecord(line.kind, r.nums), raised |-> NoName]

\* history: names in first-encounter order, extended by the operands of a line
RECURSIVE SeenAfter(_, _)
SeenAfter(seen, names) ==
    IF names = <<>> THEN seen
    ELSE SeenAfter(IF Head(names) \in Range(seen) THEN seen ELSE Append(seen, Head(names)),
                   Tail(names))

\* one iteration of the loop of PTXParser.parse on the next source line
ParseLine(line) ==
    /\ ptx_pc = "parsing"
    /\ lineno < MaxLines
    /\ lineno' = lineno + 1
    /\ IF line.kind \in {"blank", "skip"}
       THEN UNCHANGED <<reg_map, warnings, instructions, ptx_pc, ptx_err,
                        first_seen, parsed_from, countable>>
       ELSE LET r == try_parse_line(reg_map, line)
            IN  /\ reg_map' = r.map
                /\ first_seen' = SeenAfter(first_seen, RegOperands(line))
                /\ countable' = countable + 1
                /\ IF r.raised # NoName
                   THEN /\ ptx_pc' = "raised"
                        /\ ptx_err' = r.raised
                        /\ UNCHANGED <<warnings, instructions, parsed_from>>
                   ELSE /\ UNCHANGED <<ptx_pc, ptx_err>>
                        /\ IF r.ins # NoRecord
                           THEN /\ instructions' = Append(instructions, r.ins)
                                /\ parsed_from' = Append(parsed_from, line)
                                /\ UNCHANGED warnings
                           ELSE /\ warnings' = Append(warnings, [lineno |-> lineno + 1])
                                /\ UNCHANGED <<instructions, parsed_from>>

\* the end of the text: parse returns `instructions`
ParseReturn ==
    /\ ptx_pc = "parsing"
    /\ ptx_pc' = "returned"
    /\ UNCHANGED <<reg_map, warnings, instructions, lineno, ptx_err,
                   first_seen, parsed_from, countable, consumed>>

\* the k-th name the text has not used yet: a text takes its names from
\* NumNames downwards, so the names in use are the Len(seen) largest
Unused(seen, k) == NumNames + 1 - Len(seen) - k

\* the lines tried by SpecPtxDeep after a text that used the names `seen`:
\* lines bringing 3, 2, 1 and 0 new names, an unrecognised and a denied line
DeepLines(seen) ==
    LET free == NumNames - Len(seen)
        old  == IF seen = <<>> THEN Unused(seen, 1) ELSE seen[1]
        last == IF seen = <<>> THEN Unused(seen, 1) ELSE seen[Len(seen)]
    IN  (IF free >= 3
         THEN {Line("fma", <<Unused(seen, 1), Unused(seen, 2), Unused(seen, 3), Unused(seen, 1)>>)}
         ELSE {})
        \cup (IF free >= 2
              THEN {Line("ld", <<Unused(seen, 1), Unused(seen, 2)>>)}
              ELSE {})
        \cup (IF free >= 1
              THEN {Line("add", <<Unused(seen, 1), old, last>>)}
              ELSE {})
        \cup {Line("st", <<old, last>>), Line("other", <<>>), Line("skip", <<>>)}

\* number of parse calls that follow the first on one parser instance
MaxCalls == 2

\* mutant: the dict of the previous call is kept
parse_keep(map) == map

\* ptx_parser.py line 85: `self._reg_map = {}`
parse_reset(map) == [n \in Names |-> Absent]

\* PTXParser.parse lines 85-87, entered on an instance whose previous call
\* returned or raised
ParseEnter ==
    /\ ptx_pc \in {"returned", "raised"}
    /\ prior_calls < MaxCalls
    /\ prior_calls' = prior_calls + 1
    /\ prior_raised' = (prior_raised \/ ptx_pc = "raised")
    /\ reg_map' = parse_reset(reg_map)
    /\ warnings' = <<>>
    /\ instructions' = <<>>
    /\ lineno' = 0
    /\ ptx_pc' = "parsing"
    /\ ptx_err' = NoName
    /\ first_seen' = <<>> /\ parsed_from' = <<>> /\ countable' = 0 /\ consumed' = <<>>

\* the lines tried by SpecReuse: those of SpecPtxDeep that bring 3, 1 and 0
\* new names, and the unrecognised line
ReuseLines(seen) == { l \in DeepLines(seen) : l.kind \in {"fma", "add", "st", "other"} }

\* number of source lines of the texts of SpecPtxKinds
MaxKindLines == 3

\* the lines tried by SpecPtxKinds: one of every kind, the denied line naming
\* registers no other line names
KindLines ==
    { Line("blank", <<>>), Line("skip", <<4, 5>>), Line("other", <<5>>), Line("ret", <<>>),
      Line("ld", <<1, 2>>), Line("ld16", <<3, 2>>), Line("st", <<2, 1>>), Line("st16", <<2, 3>>),
      Line("add", <<1, 2, 3>>), Line("sub", <<3, 1, 2>>), Line("mul", <<1, 1, 2>>),
      Line("fma", <<3, 1, 2, 3>>), Line("max", <<2, 3>>) }

(***************************************************************************)
(* v3/compile_gpu.py : build_alias, translate, encode, assemble            *)
(*                                                                         *)
(* A line of a kernel body is modelled as for ptx_parser.py, by the first  *)
(* pattern that matches it once `{}; \t` are stripped from both ends:      *)
(*   "ldparam" <<dst, param>>   "cvta" <<dst, src>>   "add64" <<dst, src>> *)
(*              (read by build_alias, matched by SKIP in translate)        *)
(*   "blank"  "skip"  "ret"  "ld"  "st"  "add"  "sub"  "max"  "mul"        *)
(*   "fma" (accumulator is a % register)  "fmalit" (literal accumulator)   *)
(*   "compute"  no pattern matches, first token contains mul. fma. add.    *)
(*              sub. or max.                                               *)
(*   "other"    no pattern matches, anything else                          *)
(* Virtual registers are the numbers 1..NumRegs3; the k-th declared        *)
(* parameter (k from 0) has the name ParamName(k).                         *)
(***************************************************************************)
\* number of virtual register names a kernel body can use
NumRegs3 == 24
\* number of lines of a kernel body
MaxBody == 4

Regs3 == 1..NumRegs3

ParamName(k) == 100 + k

\* get_param_names for a kernel declaring n parameters
get_param_names(n) == [k \in 1..n |-> ParamName(k - 1)]

SeqsUpTo(S, n) == UNION { [1..k -> S] : k \in 0..n }

\* mutant: the dtype column of the table is dropped
OPCODES3NoDtype(mn) ==
    CASE mn = "VADD" -> <<0, 0>> [] mn = "VSUB" -> <<1, 0>> [] mn = "VMUL" -> <<2, 0>>
      [] mn = "FMAC" -> <<3, 0>> [] mn = "RELU" -> <<4, 0>> [] mn = "LD"   -> <<5, 0>>
      [] mn = "ST"   -> <<6, 0>> [] mn = "HALT" -> <<15, 0>>

\* v3/compile_gpu.py OPCODES: mnemonic -> <<opcode, dtype>>
OPCODES3(mn) ==
    CASE mn = "VADD" -> <<0, 0>> [] mn = "VSUB" -> <<1, 0>> [] mn = "VMUL" -> <<2, 1>>
      [] mn = "FMAC" -> <<3, 1>> [] mn = "RELU" -> <<4, 0>> [] mn = "LD"   -> <<5, 0>>
      [] mn = "ST"   -> <<6, 0>> [] mn = "HALT" -> <<15, 0>>

\* v3/compile_gpu.py encode: no range check on rd, rs1, rs2
encode3(mn, d, s1, s2) ==
    Pack(OPCODES3(mn)[1], OPCODES3(mn)[2], d, s1, s2)

\* v3/compile_gpu.py assemble
assemble3(recs) ==
    [i \in 1..Len(recs) |-> encode3(recs[i].op, recs[i].rd, recs[i].rs1, recs[i].rs2)]

\* mutant: resolve returns the register it is given, following no alias
resolveNoChain(al, r, visited) == r

\* build_alias.resolve
RECURSIVE resolve(_, _, _)
resolve(al, r, visited) ==
    IF r \in DOMAIN al /\ al[r] # Absent /\ r \notin visited
    THEN resolve(al, al[r], visited \cup {r})
    ELSE r

\* `r in alias`
InAlias(al, r) == r \in DOMAIN al /\ al[r] # Absent

\* build_alias lines 102-106: the ld.param scan
RECURSIVE AliasScanFrom(_, _, _)
AliasScanFrom(al, lines, i) ==
    IF i > Len(lines) THEN al
    ELSE IF lines[i].kind = "ldparam"
         THEN AliasScanFrom([al EXCEPT ![lines[i].args[1]] = lines[i].args[2]], lines, i + 1)
         ELSE AliasScanFrom(al, lines, i + 1)

\* build_alias lines 116-131: one execution of the body of `while changed`
RECURSIVE AliasPassFrom(_, _, _, _)
AliasPassFrom(al, chg, lines, i) ==
    IF i > Len(lines) THEN [alias |-> al, changed |-> chg]
    ELSE IF lines[i].kind \in {"cvta", "add64"} /\ InAlias(al, lines[i].args[2])
         THEN LET dst == lines[i].args[1]
                  new == resolve(al, lines[i].args[2], {})
              IN  IF al[dst] # new
                  THEN AliasPassFrom([al EXCEPT ![dst] = new], TRUE, lines, i + 1)
                  ELSE AliasPassFrom(al, chg, lines, i + 1)
         ELSE AliasPassFrom(al, chg, lines, i + 1)

\* build_alias line 133: the dict returned
AliasResolved(al) ==
    [r \in DOMAIN al |-> IF al[r] = Absent THEN Absent ELSE resolve(al, r, {})]

\* mutant: the k-th parameter is given register 2k
ParamSlotEven(k) == 2 * k

\* translate lines 152-166: the k-th parameter (k from 0) is given register 2k+1
ParamSlot(k) == 2 * k + 1

\* translate lines 152-168: param_phys, as the set of <<name, register>> pairs
param_phys(n) ==
    IF n \in {2, 3, 4} THEN { <<ParamName(k), ParamSlot(k)>> : k \in 0..(n - 1) } ELSE {}

InParamPhys(pp, root) == \E e \in pp : e[1] = root

ParamPhysOf(pp, root) == (CHOOSE e \in pp : e[1] = root)[2]

\* mutant: the first scratch slot is the number of reserved slots
FirstScratchCount(used_) == Cardinality(used_)

\* translate line 171: nxt = [max(used) + 1 if used else 0]
FirstScratch(used_) ==
    IF used_ = {} THEN 0 ELSE (CHOOSE m \in used_ : \A u \in used_ : u <= m) + 1

\* translate line 181: while nxt[0] in used: nxt[0] += 1
RECURSIVE SkipUsed(_, _)
SkipUsed(n, used_) == IF n \in used_ THEN SkipUsed(n + 1, used_) ELSE n

\* translate.phys on the translation state st = [rmap, used, nxt, ...]
phys(st, al, pp, r) ==
    LET root == IF InAlias(al, r) THEN al[r] ELSE r
    IN  IF InParamPhys(pp, root)
        THEN [st |-> [st EXCEPT !.rmap[r] = ParamPhysOf(pp, root)],
              p  |-> ParamPhysOf(pp, root)]
        ELSE IF st.rmap[r] = Absent
             THEN LET n == SkipUsed(st.nxt, st.used)
                  IN  [st |-> [st EXCEPT !.rmap[r] = n, !.used = @ \cup {n}, !.nxt = n + 1],
                       p  |-> n]
             ELSE [st |-> st, p |-> st.rmap[r]]

\* the calls of phys one line makes, left to right
RECURSIVE PhysSeq(_, _, _, _, _)
PhysSeq(st, al, pp, rs, nums) ==
    IF rs = <<>> THEN [st |-> st, nums |-> nums]
    ELSE LET r == phys(st, al, pp, Head(rs))
         IN  PhysSeq(r.st, al, pp, Tail(rs), Append(nums, r.p))

\* the names a matching pattern of translate passes to phys, in evaluation order
PhysOperands(line) ==
    IF line.kind \in {"fma", "fmalit"} THEN SubSeq(line.args, 1, 3)
    ELSE IF line.kind \in {"ld", "st", "add", "sub", "mul", "max"} THEN line.args
    ELSE <<>>

Mnemonic3(kind) == IF kind = "fmalit" THEN "VMUL" ELSE Mnemonic(kind)

\* mutant: the key carries the PTX operation in place of the mnemonic
EmitKeyByKind(kind, nums) ==
    IF kind = "max" THEN <<kind, nums[1], nums[2], Absent>>
    ELSE <<kind, nums[1], nums[2], nums[3]>>

\* the key translate.emit builds (rs2 is None for RELU)
EmitKey(kind, nums) ==
    IF kind = "max" THEN <<"RELU", nums[1], nums[2], Absent>>
    ELSE <<Mnemonic3(kind), nums[1], nums[2], nums[3]>>

\* the message of translate line 284: it carries the text of the line only
NoLineNumber == 0
Unmatched3(line) == [lineno |-> NoLineNumber, line |-> line]

\* one iteration of the loop of translate (lines 215-284)
TranslateLine(st, al, pp, line) ==
    IF line.kind \in {"blank", "skip", "ldparam", "cvta", "add64"} THEN st
    ELSE IF line.kind = "ret"
    THEN [st EXCEPT !.insns = Append(@, Record("HALT", 0, 0, 0)),
                    !.from = Append(@, line)]
    ELSE IF line.kind = "compute"
    THEN [st EXCEPT !.diag = Append(@, Unmatched3(line))]
    ELSE IF line.kind = "other" THEN st
    ELSE LET r == PhysSeq(st, al, pp, PhysOperands(line), <<>>)
         IN  IF line.kind \in {"ld", "st"}
             THEN [r.st EXCEPT !.insns = Append(@, BuildRecord(line.kind, r.nums)),
                               !.from = Append(@, line)]
             ELSE IF EmitKey(line.kind, r.nums) \in r.st.emitted
                  THEN r.st
                  ELSE [r.st EXCEPT
                          !.emitted = @ \cup {EmitKey(line.kind, r.nums)},
                          !.insns = Append(@, IF line.kind = "max"
                                              THEN BuildRecord("max", r.nums)
                                              ELSE Record(Mnemonic3(line.kind),
                                                          r.nums[1], r.nums[2], r.nums[3])),
                          !.from = Append(@, line)]

RECURSIVE TranslateFrom(_, _, _, _, _)
TranslateFrom(st, al, pp, lines, i) ==
    IF i > Len(lines) THEN st
    ELSE TranslateFrom(TranslateLine(st, al, pp, lines[i]), al, pp, lines, i + 1)

\* translate lines 170-172, 187-188: the locals before the loop
TranslateStart(pp) ==
    LET used0 == { e[2] : e \in pp }
    IN  [rmap |-> [r \in Regs3 |-> Absent], used |-> used0, nxt |-> FirstScratch(used0),
         insns |-> <<>>, from |-> <<>>, emitted |-> {}, diag |-> <<>>]

\* build_alias, first loop
AliasScan ==
    /\ v3_pc = "scan"
    /\ alias' = AliasScanFrom(alias, body, 1)
    /\ changed' = TRUE
    /\ v3_pc' = "fixpoint"
    /\ UNCHANGED <<nparams, body, tr, words>>

\* build_alias, one pass of `while changed`
AliasPass ==
    /\ v3_pc = "fixpoint"
    /\ changed
    /\ LET r == AliasPassFrom(alias, FALSE, body, 1)
       IN  alias' = r.alias /\ changed' = r.changed
    /\ UNCHANGED <<nparams, body, tr, words, v3_pc>>

\* build_alias returns and translate runs to its return statement
Translate ==
    /\ v3_pc = "fixpoint"
    /\ ~changed
    /\ alias' = AliasResolved(alias)
    /\ tr' = TranslateFrom(TranslateStart(param_phys(nparams)), alias', param_phys(nparams),
                           body, 1)
    /\ v3_pc' = "translated"
    /\ UNCHANGED <<nparams, body, changed, words>>

\* assemble(insns)
Assemble ==
    /\ v3_pc = "translated"
    /\ words' = assemble3(tr.insns)
    /\ v3_pc' = "assembled"
    /\ UNCHANGED <<nparams, body, alias, changed, tr>>

\* kernel bodies of SpecV3: an address chain param -> cvta -> add.s64 -> ld/st
\* on the first and the last parameter, an add on the addresses and two
\* unmatched lines
ChainLines(n) ==
    { Line("ldparam", <<1, ParamName(0)>>), Line("ldparam", <<2, ParamName(n - 1)>>),
      Line("cvta", <<3, 1>>), Line("add64", <<4, 3>>),
      Line("ld", <<5, 4>>), Line("st", <<2, 5>>), Line("add", <<5, 4, 2>>),
      Line("compute", <<>>), Line("other", <<>>) }

\* kernel bodies of SpecAlias: two parameter loads, a chain of three lines on
\* the first, a second conversion into the destination of the first, a
\* conversion of a register no parameter reaches, and a load at the end of
\* the chain
AliasLines(n) ==
    { Line("ldparam", <<1, ParamName(0)>>), Line("ldparam", <<2, ParamName(n - 1)>>),
      Line("cvta", <<3, 1>>), Line("cvta", <<3, 2>>),
      Line("add64", <<4, 3>>), Line("add64", <<6, 4>>),
      Line("cvta", <<7, 8>>), Line("ld", <<5, 6>>) }

\* kernel bodies of SpecAliasLive: two parameter loads, a conversion and a
\* 64-bit add that write the same register from the two parameters, and an
\* add that continues the chain
RewriteLines ==
    { Line("ldparam", <<1, ParamName(0)>>), Line("ldparam", <<2, ParamName(1)>>),
      Line("cvta", <<3, 1>>), Line("add64", <<3, 2>>), Line("add64", <<4, 3>>) }

\* kernel bodies of SpecScratch: a load through a parameter register, compute
\* lines and a store that bring four more names and use them again, with or
\* without the ld.param that makes the address a parameter
ScratchLines ==
    { Line("ldparam", <<1, ParamName(0)>>), Line("ld", <<5, 1>>),
      Line("add", <<6, 5, 7>>), Line("st", <<1, 6>>), Line("sub", <<7, 8, 6>>),
      Line("ret", <<>>) }

\* kernel bodies of SpecEmit: a multiply and an fma with a literal accumulator
\* on the same registers (both VMUL), an add on them, a max, a load and ret;
\* a body can repeat any of them
EmitLines ==
    { Line("mul", <<5, 6, 7>>), Line("fmalit", <<5, 6, 7>>), Line("add", <<5, 6, 7>>),
      Line("max", <<5, 6>>), Line("ld", <<6, 1>>), Line("st", <<1, 5>>), Line("ret", <<>>) }

\* kernel bodies of SpecV3Wide: lines that each bring three scratch registers;
\* one fma accumulates into its destination, the other names another register
WideLines ==
    { Line("add", <<11, 12, 13>>), Line("fma", <<14, 15, 16, 14>>),
      Line("fma", <<14, 15, 16, 23>>),
      Line("mul", <<17, 18, 19>>), Line("sub", <<20, 21, 22>>), Line("ret", <<>>) }

(***************************************************************************)
(* Execution engine (simulator). Its source file is not among the sources; *)
(* gpu_toolchain.py constructs it as GPUSim(prog, verbose, max_cycles),    *)
(* preloads sim.regfile[i] and sim.dmem[i], calls sim.run() and reads      *)
(* sim.cycle. The transition rule below is the one of spec section 4.3.    *)
(*                                                                         *)
(* A 64-bit register or memory value is the tuple of its four 16-bit       *)
(* lanes <<lane0, lane1, lane2, lane3>>, lane0 the least significant, each *)
(* lane an unsigned number 0..65535 (a signed lane is its two's            *)
(* complement).                                                            *)
(***************************************************************************)
\* number of instructions of a program, not counting its final HALT
MaxProg == 2
\* the largest max_cycles a caller supplies
MaxCycles == 20

\* isa.py: DMEM_WORDS
DMEM_WORDS == 512

LaneMod == 65536

\* isa.py OPCODES with DTYPE_ENC applied: mnemonic -> <<opcode, dtype>>
OPCODES(mn) ==
    CASE mn = "VADD" -> <<0, 0>> [] mn = "VSUB" -> <<1, 0>> [] mn = "VMUL" -> <<2, 1>>
      [] mn = "FMAC" -> <<3, 1>> [] mn = "RELU" -> <<4, 0>> [] mn = "LD"   -> <<5, 0>>
      [] mn = "ST"   -> <<6, 0>> [] mn = "HALT" -> <<15, 0>>

\* isa.py instruction(mnemonic, rd, rs1, rs2) for a mnemonic of the table
instruction(mn, d, s1, s2) == encode(OPCODES(mn)[1], OPCODES(mn)[2], d, s1, s2)

Lanes(a, b, c, d) == <<a, b, c, d>>
ZeroValue == Lanes(0, 0, 0, 0)

\* bf16 encoding of an integer 0..256 (exactly representable: 8 significant bits)
RECURSIVE Log2(_)
Log2(n) == IF n <= 1 THEN 0 ELSE 1 + Log2(n \div 2)

IntToBf16(n) ==
    IF n = 0 THEN 0
    ELSE (127 + Log2(n)) * 128 + ((n - Pow2(Log2(n))) * 128) \div Pow2(Log2(n))

\* the integer a bf16 encoding of an integer 0..256 stands for
Bf16ToInt(x) ==
    IF x = 0 THEN 0
    ELSE LET e == (x \div 128) - 127
         IN  (Pow2(e) * (128 + (x % 128))) \div 128

\* mutant: the add saturates at the largest unsigned lane instead of wrapping
AddLaneSaturating(a, b) == IF a + b >= LaneMod THEN LaneMod - 1 ELSE a + b

\* per-lane operations of the execution engine (spec 4.3, rule 2)
AddLane(a, b) == (a + b) % LaneMod
SubLane(a, b) == (a - b + LaneMod) % LaneMod
ReluLane(a) == IF a >= LaneMod \div 2 THEN 0 ELSE a
MulLane(a, b) == IntToBf16(Bf16ToInt(a) * Bf16ToInt(b))
FmacLane(a, b, acc) == IntToBf16(Bf16ToInt(a) * Bf16ToInt(b) + Bf16ToInt(acc))

\* mutant: FMAC owes one stall cycle more
StallCyclesLong(oc) == IF oc = 2 THEN 1 ELSE IF oc = 3 THEN 5 ELSE 0

\* stall cycles owed after the issuing cycle: VMUL 1, FMAC 4 (latencies 2 and 5)
StallCycles(oc) == IF oc = 2 THEN 1 ELSE IF oc = 3 THEN 4 ELSE 0

\* mutant: the word index wraps around the data memory
InRangeWrapped(v) == TRUE

\* the word index (value div 8) of a byte address lies in the data memory
InRange(v) == v[4] = 0 /\ v[3] = 0 /\ v[2] = 0 /\ v[1] \div 8 < DMEM_WORDS

\* mutant: the byte address is used as the word index
WordIndexNoDiv(v) == v[1] % DMEM_WORDS

\* the word index of an in-range byte address; with InRangeWrapped, the wrapped one
WordIndex(v) == (v[1] \div 8) % DMEM_WORDS

\* sim.dmem.get(i, 0) on the memory as a set of <<index, value>> pairs
MemRead(mem, i) ==
    IF \E e \in mem : e[1] = i THEN (CHOOSE e \in mem : e[1] = i)[2] ELSE ZeroValue

MemWrite(mem, i, v) == { e \in mem : e[1] # i } \cup { <<i, v>> }

\* mutant: the run goes on while cycle <= max_cycles
BudgetLeftOneMore(c, m) == c <= m

\* the run goes on while cycle < max_cycles
BudgetLeft(c, m) == c < m

\* the instruction the program counter points at, decoded
Fetch == decode(prog[pc + 1].bits)

\* rule 3: the cycle counter has reached max_cycles without HALT
SimTimeout ==
    /\ run_status = "running"
    /\ ~BudgetLeft(cycle, max_cycles)
    /\ run_status' = "max_cycles"
    /\ UNCHANGED <<prog, pc, regfile, dmem, cycle, busy, pending, max_cycles,
                   fault_addr, executed>>

\* rule 1: a stall cycle; the last one commits the result and advances
SimStall ==
    /\ run_status = "running"
    /\ BudgetLeft(cycle, max_cycles)
    /\ busy > 0
    /\ busy' = busy - 1
    /\ cycle' = cycle + 1
    /\ IF busy = 1
       THEN /\ regfile' = [regfile EXCEPT ![Fetch.rd] = pending]
            /\ pc' = pc + 1
       ELSE UNCHANGED <<regfile, pc>>
    /\ UNCHANGED <<prog, dmem, pending, run_status, max_cycles, fault_addr, executed>>

\* rule 2: fetch, decode and dispatch one instruction
SimIssue ==
    /\ run_status = "running"
    /\ BudgetLeft(cycle, max_cycles)
    /\ busy = 0
    /\ LET f  == Fetch
           a  == regfile[f.rs1]
           b  == regfile[f.rs2]
           acc == regfile[f.rd]
       IN  IF f.opcode \in {5, 6} /\ ~InRange(a)
           THEN \* fatal: the run stops with the state as it was
                /\ run_status' = "fault"
                /\ fault_addr' = a
                /\ UNCHANGED <<pc, regfile, dmem, cycle, busy, pending, executed>>
           ELSE /\ cycle' = cycle + 1
                /\ executed' = Append(executed, f.opcode)
                /\ busy' = StallCycles(f.opcode)
                /\ run_status' = IF f.opcode = 15 THEN "halted" ELSE "running"
                /\ pc' = IF f.opcode \in {2, 3, 15} THEN pc ELSE pc + 1
                /\ pending' =
                     CASE f.opcode = 2 -> [l \in 1..4 |-> MulLane(a[l], b[l])]
                       [] f.opcode = 3 -> [l \in 1..4 |-> FmacLane(a[l], b[l], acc[l])]
                       [] OTHER -> pending
                /\ regfile' =
                     CASE f.opcode = 0 -> [regfile EXCEPT ![f.rd] = [l \in 1..4 |-> AddLane(a[l], b[l])]]
                       [] f.opcode = 1 -> [regfile EXCEPT ![f.rd] = [l \in 1..4 |-> SubLane(a[l], b[l])]]
                       [] f.opcode = 4 -> [regfile EXCEPT ![f.rd] = [l \in 1..4 |-> ReluLane(a[l])]]
                       [] f.opcode = 5 -> [regfile EXCEPT ![f.rd] = MemRead(dmem, WordIndex(a))]
                       [] OTHER -> regfile
                /\ dmem' = IF f.opcode = 6 THEN MemWrite(dmem, WordIndex(a), b) ELSE dmem
                /\ UNCHANGED fault_addr
    /\ UNCHANGED <<prog, max_cycles>>

\* the preload of the register file: byte addresses in r1..r4 and r11 (r2 and
\* r11 lie in the same memory word), int16 lanes in r6 and r7 (among them -4,
\* -1 and the largest positive lane), bf16 lanes 2.0, 3.0 and 1.0 in r8, r9
\* and r10
Preload ==
    [r \in 0..15 |->
        CASE r = 1 -> Lanes(0, 0, 0, 0)
          [] r = 2 -> Lanes(8 * (DMEM_WORDS - 1) + 7, 0, 0, 0)
          [] r = 3 -> Lanes(8 * DMEM_WORDS, 0, 0, 0)
          [] r = 4 -> Lanes(0, 1, 0, 0)
          [] r = 6 -> Lanes(1, 2, 3, LaneMod - 4)
          [] r = 7 -> Lanes(10, LaneMod \div 2 - 1, LaneMod - 1, 40)
          [] r = 11 -> Lanes(8 * (DMEM_WORDS - 1), 0, 0, 0)
          [] r = 8 -> [l \in 1..4 |-> IntToBf16(2)]
          [] r = 9 -> [l \in 1..4 |-> IntToBf16(3)]
          [] r = 10 -> [l \in 1..4 |-> IntToBf16(1)]
          [] OTHER -> ZeroValue]

\* the instructions programs are made of
SimInstrs ==
    { instruction("VADD", 5, 6, 7), instruction("VSUB", 5, 6, 7),
      instruction("RELU", 5, 6, 0),
      instruction("VMUL", 10, 8, 9), instruction("FMAC", 10, 8, 9),
      instruction("LD", 5, 1, 0), instruction("LD", 5, 3, 0),
      instruction("ST", 0, 2, 6), instruction("ST", 0, 4, 6), instruction("LD", 7, 11, 0) }

\* the max_cycles values callers supply
CycleBudgets == {0, 3, MaxCycles}

(***************************************************************************)
(* v3/compile_gpu.py main: concatenation of the kernels and the load image *)
(*                                                                         *)
(* A line of the .mem file is the sequence of its characters.              *)
(***************************************************************************)
\* number of kernels main translates in one run
MaxKernels == 3

\* main lines 333 and 342: the depth of the instruction memory
ImageDepth == 256

NoFile == [written |-> FALSE, lines |-> <<>>]

HexDigits == <<"0", "1", "2", "3", "4", "5", "6", "7", "8", "9", "A", "B", "C", "D", "E", "F">>

\* the hex digit of weight 16^k of an integer
Nibble(bits, k) == ToNat(BitAnd(Shr(bits, 4 * k), Mask4))

\* number of hex digits of an integer (0 has none)
HexLen(bits) ==
    IF bits = {} THEN 0 ELSE ((CHOOSE m \in bits : \A b \in bits : b <= m) \div 4) + 1

\* f"{w:08X}": uppercase hex, zero-padded to at least 8 digits
Format08X(bits) ==
    LET n == IF HexLen(bits) > 8 THEN HexLen(bits) ELSE 8
    IN  [i \in 1..n |-> HexDigits[Nibble(bits, n - i) + 1]]

\* mutant: one word more is let through
TooLargeOffByOne(a) == a > ImageDepth + 1

\* main line 333: `if addr > 256`
TooLarge(a) == a > ImageDepth

\* main lines 340-342: the words, then the HALT pad up to the depth
ImageLines(ws) ==
    [i \in 1..(IF Len(ws) > ImageDepth THEN Len(ws) ELSE ImageDepth) |->
        IF i <= Len(ws) THEN Format08X(ws[i]) ELSE Format08X(encode3("HALT", 0, 0, 0))]

\* a kernel of n words, as assemble returns it
KernelOf(n) == assemble3([i \in 1..n |-> Record("VADD", i % 16, (i \div 16) % 16, 15 - (i % 16))])

\* the kernels main is run on: the empty one, [VADD(2,0,1), HALT], one with a
\* register index past 15, and two that fill about half of the memory
ImgKernels ==
    { <<>>,
      assemble3(<<Record("VADD", 2, 0, 1), Record("HALT", 0, 0, 0)>>),
      assemble3(<<Record("VMUL", 14, 15, 16)>>),
      KernelOf(ImageDepth \div 2 - 1), KernelOf(ImageDepth \div 2) }

\* main lines 322-331: one iteration of the loop over to_compile
ImgTranslate(k) ==
    /\ img_pc = "loop"
    /\ Len(sections) < MaxKernels
    /\ all_words' = all_words \o k
    /\ sections' = Append(sections, Len(k))
    /\ addr' = addr + Len(k)
    /\ UNCHANGED <<mem_file, img_pc>>

\* main lines 333-342: the size test, then the .mem file
ImgWrite ==
    /\ img_pc = "loop"
    /\ IF TooLarge(addr)
       THEN img_pc' = "rejected" /\ UNCHANGED mem_file
       ELSE /\ img_pc' = "written"
            /\ mem_file' = [written |-> TRUE, lines |-> ImageLines(all_words)]
    /\ UNCHANGED <<all_words, sections, addr>>

ImgFresh == all_words = <<>> /\ sections = <<>> /\ addr = 0 /\ mem_file = NoFile

ImgIdle == ImgFresh /\ img_pc = "idle"

\* the mnemonics of the opcode table
MnemonicsOfTable == {"VADD", "VSUB", "VMUL", "FMAC", "RELU", "LD", "ST", "HALT"}

\* isa.instruction(op, rd, rs1, rs2) on the record
AgrIsa ==
    /\ "isa" \notin ag_pc
    /\ ag_isa' = instruction(ag_rec.op, ag_rec.rd, ag_rec.rs1, ag_rec.rs2)
    /\ ag_pc' = ag_pc \cup {"isa"}
    /\ UNCHANGED <<ag_rec, ag_v3>>

\* v3 assemble([record])
AgrV3 ==
    /\ "v3" \notin ag_pc
    /\ ag_v3' = assemble3(<<ag_rec>>)
    /\ ag_pc' = ag_pc \cup {"v3"}
    /\ UNCHANGED <<ag_rec, ag_isa>>

AgrFresh == ag_isa = NoWord /\ ag_v3 = <<>> /\ ag_pc = {}

AgrIdle == AgrFresh /\ ag_rec = NoRecord

(***************************************************************************)
(* gpu_toolchain.py : parse_asm                                            *)
(*                                                                         *)
(* A line is modelled by the first pattern that matches it once the        *)
(* comment is stripped, with what the groups capture:                      *)
(*   "blank"                                                               *)
(*   "halt"                      HALT\b                                    *)
(*   "ld"    <<rd, rs1>>         LD rN, [rN]                               *)
(*   "st"    <<rs1, rs2>>        ST [rN], rN                               *)
(*   "relu"  <<rd, rs1>>         RELU rN, rN                               *)
(*   "three" <<rd, rs1, rs2>>    (\w+) rN, rN, rN  with the word captured, *)
(*                               upper-cased, in `mn`                      *)
(*   "other"                     no pattern matches                        *)
(* A register number is the value int() gives the captured digits.         *)
(***************************************************************************)
\* number of source lines of a hand-written program
MaxAsmLines == 3

AsmLine(kind, mn, args) == [kind |-> kind, mn |-> mn, args |-> args]

\* the record parse_asm appends for a line a pattern matches
AsmRecord(line) ==
    CASE line.kind = "halt"  -> Record("HALT", 0, 0, 0)
      [] line.kind = "ld"    -> Record("LD", line.args[1], line.args[2], 0)
      [] line.kind = "st"    -> Record("ST", 0, line.args[1], line.args[2])
      [] line.kind = "relu"  -> Record("RELU", line.args[1], line.args[2], 0)
      [] line.kind = "three" -> Record(line.mn, line.args[1], line.args[2], line.args[3])

\* one iteration of the loop of parse_asm
AsmParseLine(line) ==
    /\ asm_pc = "parsing"
    /\ Len(asm_text) < MaxAsmLines
    /\ asm_text' = Append(asm_text, line)
    /\ IF line.kind = "blank"
       THEN UNCHANGED <<asm_instructions, asm_from, asm_reported>>
       ELSE IF line.kind = "other"
       THEN /\ asm_reported' = Append(asm_reported, Len(asm_text) + 1)
            /\ UNCHANGED <<asm_instructions, asm_from>>
       ELSE /\ asm_instructions' = Append(asm_instructions, AsmRecord(line))
            /\ asm_from' = Append(asm_from, Len(asm_text) + 1)
            /\ UNCHANGED asm_reported
    /\ UNCHANGED asm_pc

\* the end of the text: parse_asm returns `instructions`
AsmReturn ==
    /\ asm_pc = "parsing"
    /\ asm_pc' = "returned"
    /\ UNCHANGED <<asm_text, asm_instructions, asm_from, asm_reported>>

\* the lines tried: the eight well-formed instructions, a register past r15
\* in the LD and in the three-operand form, a mnemonic that is not in the
\* table, LD written with three registers, a line no pattern matches, a blank
AsmLines ==
    { AsmLine("halt", "HALT", <<>>), AsmLine("ld", "LD", <<1, 0>>),
      AsmLine("st", "ST", <<0, 3>>), AsmLine("relu", "RELU", <<1, 0>>),
      AsmLine("three", "VADD", <<2, 0, 1>>), AsmLine("three", "FMAC", <<3, 1, 15>>),
      AsmLine("ld", "LD", <<16, 0>>), AsmLine("three", "VADD", <<2, 0, 17>>),
      AsmLine("three", "FOO", <<1, 2, 3>>), AsmLine("three", "LD", <<1, 2, 3>>),
      AsmLine("other", "", <<>>), AsmLine("blank", "", <<>>) }

AsmFresh ==
    asm_text = <<>> /\ asm_instructions = <<>> /\ asm_from = <<>> /\ asm_reported = <<>>

AsmIdle == AsmFresh /\ asm_pc = "idle"

\* PTXParser(): no parse call yet
ReuseIdle == prior_calls = 0 /\ prior_raised = FALSE

RestIdle == ImgIdle /\ AgrIdle /\ DisIdle /\ AsmIdle /\ ReuseIdle

IsaIdle ==
    /\ opcode = 0 /\ dtype = 0 /\ rd = 0 /\ rs1 = 0 /\ rs2 = 0
    /\ word = NoWord /\ fields = NoFields /\ isa_pc = "idle"

\* PTXParser.__init__ and the first three statements of parse
PtxFresh ==
    /\ reg_map = [n \in Names |-> Absent] /\ warnings = <<>> /\ instructions = <<>>
    /\ lineno = 0 /\ ptx_err = NoName
    /\ first_seen = <<>> /\ parsed_from = <<>> /\ countable = 0 /\ consumed = <<>>

PtxIdle == PtxFresh /\ ptx_pc = "idle"

\* translate has just been called on `body`
V3Fresh ==
    /\ alias = [r \in Regs3 |-> Absent] /\ changed = FALSE
    /\ tr = TranslateStart({}) /\ words = <<>>

V3Idle == V3Fresh /\ nparams = 0 /\ body = <<>> /\ v3_pc = "idle"

\* a simulator just constructed and preloaded
SimFresh ==
    /\ pc = 0 /\ regfile = Preload /\ dmem = {} /\ cycle = 0 /\ busy = 0
    /\ pending = ZeroValue /\ fault_addr = ZeroValue /\ executed = <<>>

SimIdle == SimFresh /\ prog = <<>> /\ max_cycles = 0 /\ run_status = "idle"

InitIsa ==
    /\ opcode \in FieldVals /\ dtype \in FieldVals
    /\ rd \in RegVals /\ rs1 \in RegVals /\ rs2 \in RegVals
    /\ word = NoWord /\ fields = NoFields /\ isa_pc = "start"
    /\ PtxIdle /\ V3Idle /\ SimIdle /\ RestIdle

\* a call of encode(opcode, dtype, rd, rs1, rs2)
Encode ==
    /\ isa_pc = "start"
    /\ word' = encode(opcode, dtype, rd, rs1, rs2)
    /\ isa_pc' = IF word'.raised THEN "failed" ELSE "encoded"
    /\ UNCHANGED <<opcode, dtype, rd, rs1, rs2, fields>>
    /\ UNCHANGED <<ptxVars, v3Vars, simVars, restVars>>

\* a call of decode on the word encode returned
Decode ==
    /\ isa_pc = "encoded"
    /\ fields' = decode(word.bits)
    /\ isa_pc' = "decoded"
    /\ UNCHANGED <<opcode, dtype, rd, rs1, rs2, word>>
    /\ UNCHANGED <<ptxVars, v3Vars, simVars, restVars>>

vars == <<isaVars, ptxVars, v3Vars, simVars, restVars>>

NextIsa == Encode \/ Decode

SpecIsa == InitIsa /\ [][NextIsa]_vars

InitPtx == IsaIdle /\ V3Idle /\ SimIdle /\ RestIdle /\ PtxFresh /\ ptx_pc = "parsing"

ParseDeep ==
    /\ (\E line \in DeepLines(first_seen) : ParseLine(line))
    /\ UNCHANGED consumed
    /\ UNCHANGED <<isaVars, v3Vars, simVars, restVars>>

Return == ParseReturn /\ UNCHANGED <<isaVars, v3Vars, simVars, restVars>>

NextPtxDeep == ParseDeep \/ Return

ParseKinds ==
    /\ lineno < MaxKindLines
    /\ (\E line \in KindLines : ParseLine(line) /\ consumed' = Append(consumed, line))
    /\ UNCHANGED <<isaVars, v3Vars, simVars, restVars>>

NextPtxKinds == ParseKinds \/ Return

ParseReuse ==
    /\ (\E line \in ReuseLines(first_seen) :
            ParseLine(line) /\ consumed' = Append(consumed, line))
    /\ UNCHANGED <<isaVars, v3Vars, simVars, restVars>>

ParseAgain ==
    ParseEnter /\ UNCHANGED <<isaVars, v3Vars, simVars, imgVars, agrVars, disVars, asmVars>>

NextReuse == ParseReuse \/ Return \/ ParseAgain

SpecReuse == InitPtx /\ [][NextReuse]_vars

SpecPtxKinds == InitPtx /\ [][NextPtxKinds]_vars

SpecPtxDeep == InitPtx /\ [][NextPtxDeep]_vars

\* the declared parameter counts tried: the three of the calling convention
ParamCounts == {2, 3, 4}

InitV3 ==
    /\ IsaIdle /\ PtxIdle /\ SimIdle /\ RestIdle /\ V3Fresh
    /\ nparams \in ParamCounts
    /\ body \in SeqsUpTo(ChainLines(nparams), MaxBody)
    /\ v3_pc = "scan"

InitV3Wide ==
    /\ IsaIdle /\ PtxIdle /\ SimIdle /\ RestIdle /\ V3Fresh
    /\ nparams \in ParamCounts
    /\ body \in SeqsUpTo(WideLines, MaxBody)
    /\ v3_pc = "scan"

BuildAliasScan == AliasScan /\ UNCHANGED <<isaVars, ptxVars, simVars, restVars>>

BuildAliasPass == AliasPass /\ UNCHANGED <<isaVars, ptxVars, simVars, restVars>>

TranslateBody == Translate /\ UNCHANGED <<isaVars, ptxVars, simVars, restVars>>

AssembleRecords == Assemble /\ UNCHANGED <<isaVars, ptxVars, simVars, restVars>>

NextV3 == BuildAliasScan \/ BuildAliasPass \/ TranslateBody \/ AssembleRecords

SpecV3 == InitV3 /\ [][NextV3]_vars

SpecV3Wide == InitV3Wide /\ [][NextV3]_vars

InitAlias ==
    /\ IsaIdle /\ PtxIdle /\ SimIdle /\ RestIdle /\ V3Fresh
    /\ nparams \in ParamCounts
    /\ body \in SeqsUpTo(AliasLines(nparams), MaxBody)
    /\ v3_pc = "scan"

SpecAlias == InitAlias /\ [][NextV3]_vars

\* the declared parameter counts of SpecScratch: the three of the calling
\* convention, one below and one above
ScratchCounts == 1..5

InitScratch ==
    /\ IsaIdle /\ PtxIdle /\ SimIdle /\ RestIdle /\ V3Fresh
    /\ nparams \in ScratchCounts
    /\ body \in SeqsUpTo(ScratchLines, MaxBody)
    /\ v3_pc = "scan"

SpecScratch == InitScratch /\ [][NextV3]_vars

InitEmit ==
    /\ IsaIdle /\ PtxIdle /\ SimIdle /\ RestIdle /\ V3Fresh
    /\ nparams \in ParamCounts
    /\ body \in SeqsUpTo(EmitLines, MaxBody)
    /\ v3_pc = "scan"

SpecEmit == InitEmit /\ [][NextV3]_vars

InitAliasLive ==
    /\ IsaIdle /\ PtxIdle /\ SimIdle /\ RestIdle /\ V3Fresh
    /\ nparams = 2
    /\ body \in SeqsUpTo(RewriteLines, MaxBody)
    /\ v3_pc = "scan"

\* build_alias and translate are straight-line code and loops that nothing
\* suspends: a step that can be taken is taken
SpecAliasLive == InitAliasLive /\ [][NextV3]_vars /\ WF_vars(NextV3)

InitSim ==
    /\ IsaIdle /\ PtxIdle /\ V3Idle /\ RestIdle /\ SimFresh
    /\ \E p \in SeqsUpTo(SimInstrs, MaxProg) : prog = Append(p, instruction("HALT", 0, 0, 0))
    /\ max_cycles \in CycleBudgets
    /\ run_status = "running"

Timeout == SimTimeout /\ UNCHANGED <<isaVars, ptxVars, v3Vars, restVars>>

Stall == SimStall /\ UNCHANGED <<isaVars, ptxVars, v3Vars, restVars>>

Issue == SimIssue /\ UNCHANGED <<isaVars, ptxVars, v3Vars, restVars>>

NextSim == Timeout \/ Stall \/ Issue

\* run() is a loop that nothing suspends: it keeps taking steps while it can
SpecSim == InitSim /\ [][NextSim]_vars /\ WF_vars(NextSim)

InitImg ==
    /\ IsaIdle /\ PtxIdle /\ V3Idle /\ SimIdle /\ ReuseIdle /\ AgrIdle /\ DisIdle /\ AsmIdle
    /\ ImgFresh /\ img_pc = "loop"

TranslateKernel ==
    /\ (\E k \in ImgKernels : ImgTranslate(k))
    /\ UNCHANGED <<isaVars, ptxVars, v3Vars, simVars, agrVars, disVars, asmVars, reuseVars>>

WriteImage ==
    ImgWrite /\ UNCHANGED <<isaVars, ptxVars, v3Vars, simVars, agrVars, disVars, asmVars, reuseVars>>

NextImg == TranslateKernel \/ WriteImage

SpecImg == InitImg /\ [][NextImg]_vars

InitAgr ==
    /\ IsaIdle /\ PtxIdle /\ V3Idle /\ SimIdle /\ ReuseIdle /\ ImgIdle /\ DisIdle /\ AsmIdle /\ AgrFresh
    /\ \E mn \in MnemonicsOfTable : \E d, s1, s2 \in 0..15 : ag_rec = Record(mn, d, s1, s2)

AssembleIsa ==
    AgrIsa /\ UNCHANGED <<isaVars, ptxVars, v3Vars, simVars, imgVars, disVars, asmVars, reuseVars>>

AssembleV3 ==
    AgrV3 /\ UNCHANGED <<isaVars, ptxVars, v3Vars, simVars, imgVars, disVars, asmVars, reuseVars>>

NextAgr == AssembleIsa \/ AssembleV3

SpecAgr == InitAgr /\ [][NextAgr]_vars

InitDis ==
    /\ IsaIdle /\ PtxIdle /\ V3Idle /\ SimIdle /\ ReuseIdle /\ ImgIdle /\ AgrIdle /\ AsmIdle /\ DisFresh
    /\ dis_parts \in DisParts
    /\ dis_word = WordOfParts(dis_parts)

DecodeWord ==
    DisDecode /\ UNCHANGED <<isaVars, ptxVars, v3Vars, simVars, imgVars, agrVars, asmVars, reuseVars>>

DisasmWord ==
    DisDisasm /\ UNCHANGED <<isaVars, ptxVars, v3Vars, simVars, imgVars, agrVars, asmVars, reuseVars>>

NextDis == DecodeWord \/ DisasmWord

SpecDis == InitDis /\ [][NextDis]_vars

InitAsm ==
    /\ IsaIdle /\ PtxIdle /\ V3Idle /\ SimIdle /\ ReuseIdle /\ ImgIdle /\ AgrIdle /\ DisIdle
    /\ AsmFresh /\ asm_pc = "parsing"

ParseAsmLine ==
    /\ (\E line \in AsmLines : AsmParseLine(line))
    /\ UNCHANGED <<isaVars, ptxVars, v3Vars, simVars, imgVars, agrVars, disVars, reuseVars>>

ParseAsmReturn ==
    AsmReturn /\ UNCHANGED <<isaVars, ptxVars, v3Vars, simVars, imgVars, agrVars, disVars, reuseVars>>

NextAsm == ParseAsmLine \/ ParseAsmReturn

SpecAsm == InitAsm /\ [][NextAsm]_vars

(***************************************************************************)
(* Claims on isa.py                                                        *)
(***************************************************************************)
\* C1: round trip. Whenever encode has returned a word for (opcode, dtype, rd,
\* rs1, rs2) and decode has been applied to it, the decoded fields are exactly
\* the five arguments.
C1_RoundTrip ==
    isa_pc = "decoded" =>
        fields = [opcode |-> opcode, dtype |-> dtype, rd |-> rd, rs1 |-> rs1, rs2 |-> rs2]

\* a round trip of HALT's opcode with all-ones and mixed register fields
C1_Witness ==
    /\ isa_pc = "decoded"
    /\ opcode = 15 /\ dtype = 1 /\ rd = 5 /\ rs1 = 15 /\ rs2 = 10
    /\ fields.rs1 = 15 /\ fields.rs2 = 10

\* C2: encode fails fast. Once encode has been called, it has produced no word
\* if any argument is outside 0..15, and otherwise a word with bits [11:0]
\* zero that fits in 32 bits.
C2_FailFast ==
    isa_pc # "start" =>
        IF \E f \in {opcode, dtype, rd, rs1, rs2} : f < 0 \/ f > 15
        THEN word = NoWord /\ isa_pc = "failed"
        ELSE /\ ~word.raised /\ isa_pc \in {"encoded", "decoded"}
             /\ word.bits \cap (0..11) = {}
             /\ word.bits \subseteq 0..31

\* encode refused a call whose only bad argument is rs2 = 16
C2_Witness ==
    /\ isa_pc = "failed" /\ word = NoWord
    /\ opcode = 15 /\ dtype = 0 /\ rd = 0 /\ rs1 = 0 /\ rs2 > 15

(***************************************************************************)
(* Claims on ptx_parser.py                                                 *)
(***************************************************************************)
\* the numbers reg_map gives to the operands of a source line
MappedOperands(line) ==
    [i \in 1..Len(RegOperands(line)) |-> reg_map[RegOperands(line)[i]]]

PtxLinesAccounted ==
    ptx_pc # "raised" =>
        /\ Len(instructions) + Len(warnings) = countable
        /\ \A w \in 1..Len(warnings) : warnings[w].lineno \in 1..lineno

(***************************************************************************)
(* Claims on v3/compile_gpu.py                                             *)
(***************************************************************************)
\* the register fields of a record, in the order of the operands of its line
SlotsOf(rec, kind) ==
    CASE kind = "ld"  -> <<rec.rd, rec.rs1>>
      [] kind = "st"  -> <<rec.rs1, rec.rs2>>
      [] kind = "max" -> <<rec.rd, rec.rs1>>
      [] kind = "ret" -> <<>>
      [] OTHER        -> <<rec.rd, rec.rs1, rec.rs2>>

V3Returned == v3_pc \in {"translated", "assembled"}

\* C4: every rd, rs1, rs2 of every record translate returns is in 0..15, and
\* each assembled word decodes back to its record's opcode and register fields.
C4_FieldsInRange ==
    /\ V3Returned =>
          \A j \in 1..Len(tr.insns) :
              /\ tr.insns[j].rd \in 0..15
              /\ tr.insns[j].rs1 \in 0..15
              /\ tr.insns[j].rs2 \in 0..15
    /\ v3_pc = "assembled" =>
          \A j \in 1..Len(tr.insns) :
              LET d == decode(words[j])
              IN  /\ d.opcode = OPCODES3(tr.insns[j].op)[1]
                  /\ d.rd = tr.insns[j].rd
                  /\ d.rs1 = tr.insns[j].rs1
                  /\ d.rs2 = tr.insns[j].rs2

\* C5: calling convention. In every record translate returns, an operand whose
\* virtual register has the k-th declared parameter as its alias root carries
\* the physical register 2k+1.
C5_CallingConvention ==
    V3Returned =>
        \A j \in 1..Len(tr.insns) :
            LET ops   == PhysOperands(tr.from[j])
                slots == SlotsOf(tr.insns[j], tr.from[j].kind)
            IN  \A i \in 1..Len(ops) : \A k \in 0..(nparams - 1) :
                    alias[ops[i]] = ParamName(k) => slots[i] = 2 * k + 1

\* a 4-parameter kernel whose lines come in reverse dataflow order (the load
\* first, the ld.param last): the load's address is r1, and a store through
\* the last parameter would use r7
C5_Witness ==
    /\ V3Returned /\ nparams = 4
    /\ Len(body) = 4
    /\ body[1].kind = "ld" /\ body[2].kind = "add64"
    /\ body[3].kind = "cvta" /\ body[4] = Line("ldparam", <<1, ParamName(0)>>)
    /\ alias[4] = ParamName(0)
    /\ Len(tr.insns) = 1 /\ tr.insns[1].op = "LD" /\ tr.insns[1].rs1 = 1

\* the lines of the body that are neither blank nor matched by SKIP
Countable3 ==
    { i \in 1..Len(body) : body[i].kind \notin {"blank", "skip", "ldparam", "cvta", "add64"} }

\* C10: unrecognized lines are recorded and skipped. When translate returns,
\* every line that matched no pattern has a diagnostic carrying its 1-based
\* line number, and records plus diagnostics account for every non-blank,
\* non-denied line.
C10_UnmatchedRecorded ==
    V3Returned =>
        /\ \A i \in Countable3 :
              body[i].kind \in {"compute", "other"} =>
                  \E d \in 1..Len(tr.diag) : tr.diag[d].lineno = i
        /\ Len(tr.insns) + Len(tr.diag) = Cardinality(Countable3)

(***************************************************************************)
(* Claims on the execution engine                                          *)
(***************************************************************************)
\* the latency table of the claim: VMUL 2, FMAC 5, every other instruction 1
TableLatency(oc) == IF oc = 2 THEN 2 ELSE IF oc = 3 THEN 5 ELSE 1

RECURSIVE SumLatency(_)
SumLatency(ops) == IF ops = <<>> THEN 0 ELSE TableLatency(Head(ops)) + SumLatency(Tail(ops))

ProgOpcodes == [i \in 1..Len(prog) |-> decode(prog[i].bits).opcode]

\* C7: cycle-count parity. A run that has halted has executed every instruction
\* of its program once, in order, and its cycle counter is the sum of their
\* latencies; while the busy countdown is nonzero the program counter stays on
\* the multiply instruction that was issued.
C7_CycleParity ==
    /\ run_status = "halted" =>
          /\ executed = ProgOpcodes
          /\ cycle = SumLatency(executed)
    /\ busy > 0 =>
          /\ pc = Len(executed) - 1
          /\ Fetch.opcode \in {2, 3}

\* [FMAC, HALT] has halted after exactly 6 cycles
C7_Witness ==
    /\ run_status = "halted"
    /\ prog = <<instruction("FMAC", 10, 8, 9), instruction("HALT", 0, 0, 0)>>
    /\ cycle = 6

HaltExecuted == executed # <<>> /\ executed[Len(executed)] = 15

\* the instruction at the program counter is an LD or ST whose word index
\* (value of rs1 div 8) is outside the data memory
OutOfRangeAccess ==
    LET a == regfile[Fetch.rs1]
    IN  /\ Fetch.opcode \in {5, 6}
        /\ ~(a[4] = 0 /\ a[3] = 0 /\ a[2] = 0 /\ a[1] \div 8 <= DMEM_WORDS - 1)

\* C8 as stated: a run that has stopped has either executed HALT and reports
\* the normal-halt status, or has reached max_cycles without HALT and reports
\* the exceeded-max-cycles status; the cycle counter never exceeds max_cycles.
C8_TwoOutcomes ==
    /\ cycle <= max_cycles
    /\ run_status # "running" =>
          \/ run_status = "halted" /\ HaltExecuted
          \/ run_status = "max_cycles" /\ cycle = max_cycles /\ ~HaltExecuted

C8_Outcome ==
    /\ cycle <= max_cycles
    /\ run_status \in {"running", "halted", "max_cycles", "fault"}
    /\ run_status = "halted" => HaltExecuted
    /\ run_status = "max_cycles" => cycle = max_cycles /\ ~HaltExecuted
    /\ run_status = "fault" => ~HaltExecuted /\ OutOfRangeAccess /\ busy = 0

\* C8, amended: every run stops; it stops with the normal-halt status exactly
\* when it executed HALT, with the exceeded-max-cycles status only when the
\* cycle counter has reached max_cycles without HALT, and otherwise on a fatal
\* out-of-range memory access; the cycle counter never exceeds max_cycles.
C8_Terminates == (<>(run_status # "running")) /\ [](C8_Outcome)

\* a run cut off by max_cycles = 3 in the middle of an FMAC stall
C8_Witness ==
    /\ run_status = "max_cycles"
    /\ max_cycles = 3 /\ cycle = 3
    /\ busy > 0 /\ Fetch.opcode = 3

\* C9: an LD or ST whose word index is outside the data memory stops the run at
\* that instruction: the step is the fatal one, it reports the address, and it
\* leaves registers, memory, program counter and cycle counter as they were;
\* the run stops this way for no other reason, and stays stopped.
C9_FaultIsFatal ==
    [][ /\ (run_status = "running" /\ busy = 0 /\ cycle < max_cycles /\ OutOfRangeAccess)
            => /\ run_status' = "fault"
               /\ fault_addr' = regfile[Fetch.rs1]
               /\ regfile' = regfile /\ dmem' = dmem /\ pc' = pc /\ cycle' = cycle
        /\ (run_status # "fault" /\ run_status' = "fault") => OutOfRangeAccess
        /\ run_status = "fault" => run_status' = "fault"
      ]_vars

\* after one store in range, a store through byte address 65536 (word index
\* 8192, which wraps to 0 modulo 512) has stopped the run
C9_Witness ==
    /\ run_status = "fault"
    /\ fault_addr = Lanes(0, 1, 0, 0)
    /\ cycle = 1 /\ pc = 1
    /\ dmem = { <<DMEM_WORDS - 1, regfile[6]>> }

\* the fma lines of the body whose accumulator is a register other than the
\* destination
FmaMismatch3 ==
    { i \in 1..Len(body) : body[i].kind = "fma" /\ body[i].args[4] # body[i].args[1] }

\* C11: accumulator mismatch. When translate returns, every fma line whose
\* accumulator register differs from its destination has a warning among the
\* diagnostics and an FMAC record built from destination and multiplicands,
\* and an fma line accumulating into its destination has no warning.
C11_MismatchWarned ==
    V3Returned =>
        /\ \A i \in FmaMismatch3 :
              /\ \E d \in 1..Len(tr.diag) : tr.diag[d].line = body[i]
              /\ \E j \in 1..Len(tr.insns) :
                    tr.from[j] = body[i] /\ tr.insns[j].op = "FMAC"
        /\ \A d \in 1..Len(tr.diag) :
              tr.diag[d].line.kind = "fma" => tr.diag[d].line.args[4] # tr.diag[d].line.args[1]

(***************************************************************************)
(* Claims on the load image                                                *)
(***************************************************************************)
UpperHex == {"0", "1", "2", "3", "4", "5", "6", "7", "8", "9", "A", "B", "C", "D", "E", "F"}

\* the integer a line of hex digits stands for
ParseHex(line) ==
    UNION { Shl(ToBits((CHOOSE v \in 0..15 : HexDigits[v + 1] = line[i])), 4 * (Len(line) - i)) :
            i \in 1..Len(line) }

HaltLine == <<"F", "0", "0", "0", "0", "0", "0", "0">>

\* C12: load-image shape. A written image has exactly 256 lines; line i is
\* word i as 8 uppercase hex digits for i < n, every later line is the HALT
\* sentinel F0000000; a program of more than 256 words is rejected with no
\* file written, and only such a program is.
C12_ImageShape ==
    /\ img_pc = "written" =>
          /\ mem_file.written
          /\ Len(all_words) <= 256
          /\ Len(mem_file.lines) = 256
          /\ \A i \in 1..256 :
                IF i <= Len(all_words)
                THEN /\ Len(mem_file.lines[i]) = 8
                     /\ \A c \in 1..8 : mem_file.lines[i][c] \in UpperHex
                     /\ ParseHex(mem_file.lines[i]) = all_words[i]
                ELSE mem_file.lines[i] = HaltLine
    /\ img_pc = "rejected" => Len(all_words) > 256 /\ mem_file = NoFile
    /\ Len(all_words) > 256 => img_pc # "written"

\* the image of [VADD(2,0,1), HALT]
C12_Witness ==
    /\ img_pc = "written"
    /\ all_words = <<instruction("VADD", 2, 0, 1).bits, instruction("HALT", 0, 0, 0).bits>>
    /\ Len(mem_file.lines) = 256
    /\ mem_file.lines[1] = <<"0", "0", "2", "0", "1", "0", "0", "0">>
    /\ mem_file.lines[2] = HaltLine /\ mem_file.lines[256] = HaltLine

(***************************************************************************)
(* Claims on the data path of the execution engine                         *)
(***************************************************************************)
\* the signed 16-bit number a lane stands for
Signed(x) == IF x >= 32768 THEN x - 65536 ELSE x

\* an instruction is issued in this step
Issuing == run_status = "running" /\ busy = 0 /\ cycle < max_cycles

\* C13: integer SIMD semantics. A step that issues VADD, VSUB or RELU writes to
\* rd, lane by lane, the signed 16-bit value congruent modulo 2^16 to the sum
\* resp. difference of the rs1 and rs2 lanes, resp. max(0, rs1 lane); it takes
\* one cycle, advances the program counter by one, and changes no other
\* register and no memory word.
C13_IntegerLanes ==
    [][ (Issuing /\ Fetch.opcode \in {0, 1, 4}) =>
           LET f == Fetch
               a == regfile[f.rs1]
               b == regfile[f.rs2]
               r == regfile'[f.rd]
           IN  /\ \A l \in 1..4 :
                     /\ r[l] \in 0..65535
                     /\ f.opcode = 0 => (Signed(r[l]) - (Signed(a[l]) + Signed(b[l]))) % 65536 = 0
                     /\ f.opcode = 1 => (Signed(r[l]) - (Signed(a[l]) - Signed(b[l]))) % 65536 = 0
                     /\ f.opcode = 4 =>
                           Signed(r[l]) = IF Signed(a[l]) > 0 THEN Signed(a[l]) ELSE 0
               /\ \A q \in 0..15 : q # f.rd => regfile'[q] = regfile[q]
               /\ dmem' = dmem
               /\ pc' = pc + 1 /\ cycle' = cycle + 1 /\ busy' = 0
               /\ run_status' = "running"
      ]_vars

\* VSUB then VADD have been issued: the add of (1, 2, 3, -4) and
\* (10, 32767, -1, 40) has wrapped lane 1 and carried nothing out of lane 2
C13_Witness ==
    /\ executed = <<1, 0>> /\ pc = 2 /\ cycle = 2
    /\ regfile[5] = Lanes(11, 32769, 2, 36)
\* the byte address held by a register value whose upper lanes are zero
ByteAddress(v) == v[1]

\* the word of the memory at an index (a word never written is zero)
WordAt(mem, idx) ==
    IF \E e \in mem : e[1] = idx THEN (CHOOSE e \in mem : e[1] = idx)[2] ELSE ZeroValue

\* C14: byte-to-word addressing. A step that issues an LD or ST whose address
\* is in range accesses the word of index (rs1 value) div 8: LD copies it into
\* rd, ST copies rs2 into it and changes no other word; so a store through
\* byte address 4095 followed by a load through byte address 4088 returns the
\* stored value.
C14_ByteToWord ==
    [][ /\ (Issuing /\ Fetch.opcode \in {5, 6} /\ ~OutOfRangeAccess) =>
              LET f   == Fetch
                  idx == ByteAddress(regfile[f.rs1]) \div 8
              IN  /\ idx \in 0..511
                  /\ f.opcode = 5 =>
                        /\ regfile'[f.rd] = WordAt(dmem, idx)
                        /\ dmem' = dmem
                  /\ f.opcode = 6 =>
                        /\ WordAt(dmem', idx) = regfile[f.rs2]
                        /\ \A j \in 0..511 : j # idx => WordAt(dmem', j) = WordAt(dmem, j)
                        /\ \A e \in dmem' : e[1] \in 0..511
                        /\ regfile' = regfile
                  /\ pc' = pc + 1 /\ cycle' = cycle + 1
        /\ (executed' = <<6, 5>> /\ prog[1] = instruction("ST", 0, 2, 6)
                                 /\ prog[2] = instruction("LD", 7, 11, 0))
              => regfile'[7] = regfile'[6]
      ]_vars

\* the store through r2 = 4095 and the load through r11 = 4088 have run
C14_Witness ==
    /\ executed = <<6, 5>>
    /\ prog[1] = instruction("ST", 0, 2, 6) /\ prog[2] = instruction("LD", 7, 11, 0)
    /\ ByteAddress(regfile[2]) = 4095 /\ ByteAddress(regfile[11]) = 4088
    /\ regfile[7] = Lanes(1, 2, 3, 65532)
    /\ dmem = { <<511, regfile[7]>> }

(***************************************************************************)
(* Claims on the agreement of the encoders                                 *)
(***************************************************************************)
\* the opcode table of the instruction set: mnemonic -> <<opcode, dtype>>
TableOf(mn) ==
    CASE mn = "VADD" -> <<0, 0>> [] mn = "VSUB" -> <<1, 0>> [] mn = "VMUL" -> <<2, 1>>
      [] mn = "FMAC" -> <<3, 1>> [] mn = "RELU" -> <<4, 0>> [] mn = "LD"   -> <<5, 0>>
      [] mn = "ST"   -> <<6, 0>> [] mn = "HALT" -> <<15, 0>>

\* C15: encoder agreement. For every mnemonic of the table and rd, rs1, rs2
\* in 0..15, isa.instruction and the v3 assemble give the same 32-bit word,
\* whose fields are the table's opcode and dtype and the record's registers
\* with bits [11:0] zero; HALT with zero registers is F0000000.
C15_EncodersAgree ==
    /\ "isa" \in ag_pc =>
          /\ ~ag_isa.raised
          /\ ag_isa.bits \subseteq 12..31
          /\ decode(ag_isa.bits) =
                [opcode |-> TableOf(ag_rec.op)[1], dtype |-> TableOf(ag_rec.op)[2],
                 rd |-> ag_rec.rd, rs1 |-> ag_rec.rs1, rs2 |-> ag_rec.rs2]
    /\ ag_pc = {"isa", "v3"} =>
          /\ Len(ag_v3) = 1 /\ ag_v3[1] = ag_isa.bits
          /\ ag_rec = Record("HALT", 0, 0, 0) => ag_v3[1] = {28, 29, 30, 31}

\* FMAC r3, r1, r2 assembled by both: opcode 3, dtype 1 in bits 31..24
C15_Witness ==
    /\ ag_pc = {"isa", "v3"}
    /\ ag_rec = Record("FMAC", 3, 1, 2)
    /\ ag_v3 = <<{29, 28, 24, 21, 20, 16, 13}>>

(***************************************************************************)
(* Claims on decode and disasm                                             *)
(***************************************************************************)
\* the rendering the claim gives for an opcode with the register nibbles
\* d, s1, s2
RenderingOf(oc, d, s1, s2) ==
    CASE oc = 15 -> Text("HALT", <<>>, "")
      [] oc = 5  -> Text("LD", <<Reg(d), Mem(s1)>>, "")
      [] oc = 6  -> Text("ST", <<Mem(s1), Reg(s2)>>, "")
      [] oc = 4  -> Text("RELU", <<Reg(d), Reg(s1)>>, "")
      [] oc = 3  -> Text("FMAC", <<Reg(d), Reg(s1), Reg(s2)>>, "; rd = rs1*rs2 + rd")
      [] oc = 0  -> Text("VADD", <<Reg(d), Reg(s1), Reg(s2)>>, "")
      [] oc = 1  -> Text("VSUB", <<Reg(d), Reg(s1), Reg(s2)>>, "")
      [] oc = 2  -> Text("VMUL", <<Reg(d), Reg(s1), Reg(s2)>>, "")
      [] OTHER   -> Text(PlaceholderName(oc), <<Reg(d), Reg(s1), Reg(s2)>>, "")

\* C16: decode and disasm are total and read bits [31:12] only. For every
\* word, decode returns the five nibbles (an opcode missing from the table as
\* its number) whatever bits [11:0] hold, and disasm returns the rendering of
\* the opcode: HALT alone, LD rd, [rs1], ST [rs1], rs2, RELU rd, rs1, FMAC
\* with its annotation, the three-operand form for VADD, VSUB, VMUL, and a
\* numbered placeholder with three operands for any other opcode.
C16_DecodeDisasmTotal ==
    /\ "decode" \in dis_pc =>
          dis_fields = [opcode |-> dis_parts.opcode, dtype |-> dis_parts.dtype,
                        rd |-> dis_parts.rd, rs1 |-> dis_parts.rs1, rs2 |-> dis_parts.rs2]
    /\ "disasm" \in dis_pc =>
          /\ dis_text = RenderingOf(dis_parts.opcode, dis_parts.rd, dis_parts.rs1, dis_parts.rs2)
          /\ dis_text # NoText
          /\ dis_parts.opcode \notin {0, 1, 2, 3, 4, 5, 6, 15} =>
                dis_text.name \notin MnemonicsOfTable \cup {"OP"}

\* a word of opcode 7 with an unknown dtype and all of bits [11:0] set
C16_Witness ==
    /\ dis_pc = {"decode", "disasm"}
    /\ dis_word = {30, 29, 28, 27, 24, 22, 21} \cup (0..11)
    /\ dis_fields.opcode = 7 /\ dis_fields.dtype = 9 /\ dis_fields.rd = 6
    /\ dis_text = Text("OP7", <<Reg(6), Reg(0), Reg(0)>>, "")

(***************************************************************************)
(* Claims on the pattern set of ptx_parser.py                              *)
(***************************************************************************)
\* the eight operations of the intermediate representation: 16-bit add,
\* subtract and max with zero, bf16 multiply and fused multiply-add, 64-bit
\* global load and store, ret
IsIrOperation(line) == line.kind \in {"add", "sub", "max", "mul", "fma", "ld", "st", "ret"}

IsDenied(line) == line.kind = "skip"

\* C17: pattern set. While parse has not raised, the lines that gave a record
\* are, in order, exactly the consumed lines that are one of the eight
\* operations; a line matched by the deny-list has neither a record nor a
\* warning, and a register named only by denied or unmatched lines is not
\* allocated.
C17_PatternSet ==
    ptx_pc # "raised" =>
        /\ parsed_from = SelectSeq(consumed, IsIrOperation)
        /\ Len(instructions) = Len(parsed_from)
        /\ \A w \in 1..Len(warnings) : ~IsDenied(consumed[warnings[w].lineno])
        /\ \A n \in Names :
              reg_map[n] # Absent =>
                  \E i \in 1..Len(consumed) :
                      /\ consumed[i].kind \notin {"blank", "skip", "other"}
                      /\ n \in Range(consumed[i].args)

(***************************************************************************)
(* Claims on parse_asm                                                     *)
(***************************************************************************)
\* the line names a mnemonic outside the table or a register past r15
IllFormedAsm(line) ==
    /\ line.kind \notin {"blank", "other"}
    /\ \/ line.mn \notin MnemonicsOfTable
       \/ \E i \in 1..Len(line.args) : line.args[i] > 15

\* C18: records of parse_asm are well formed. Every record has a mnemonic of
\* the table and rd, rs1, rs2 in 0..15, with rs2 = 0 for LD and RELU, rd = 0
\* for ST and all three zero for HALT; a line with a mnemonic outside the
\* table or a register past r15 is reported with its line number and gives
\* no record.
C18_AsmWellFormed ==
    /\ \A j \in 1..Len(asm_instructions) :
          LET r == asm_instructions[j]
          IN  /\ r.op \in MnemonicsOfTable
              /\ r.rd \in 0..15 /\ r.rs1 \in 0..15 /\ r.rs2 \in 0..15
              /\ r.op \in {"LD", "RELU"} => r.rs2 = 0
              /\ r.op = "ST" => r.rd = 0
              /\ r.op = "HALT" => r.rd = 0 /\ r.rs1 = 0 /\ r.rs2 = 0
    /\ \A i \in 1..Len(asm_text) :
          IllFormedAsm(asm_text[i]) =>
              /\ \E k \in 1..Len(asm_reported) : asm_reported[k] = i
              /\ \A j \in 1..Len(asm_from) : asm_from[j] # i

(***************************************************************************)
(* Claims on build_alias                                                   *)
(***************************************************************************)
\* C19: the alias fixed-point pass terminates. For every kernel body,
\* build_alias reaches a pass in which no alias changes, so translate gets
\* to run and return.
C19_FixpointTerminates == <>(v3_pc \in {"translated", "assembled"})

\* the lines that define a register for build_alias
DefiningLines == { i \in 1..Len(body) : body[i].kind \in {"ldparam", "cvta", "add64"} }

\* each register has one defining line
SingleDef == \A i, j \in DefiningLines : i # j => body[i].args[1] # body[j].args[1]

\* the <<register, parameter>> pairs reachable in at most k chain steps
RECURSIVE Reach(_)
Reach(k) ==
    IF k = 0
    THEN { <<body[i].args[1], body[i].args[2]>> : i \in { j \in DefiningLines : body[j].kind = "ldparam" } }
    ELSE LET prev == Reach(k - 1)
         IN  prev \cup
             { <<body[x[1]].args[1], x[2][2]>> :
                 x \in { y \in DefiningLines \X prev :
                            body[y[1]].kind # "ldparam" /\ body[y[1]].args[2] = y[2][1] } }

\* C20: alias resolution is transitive and order-independent. When every
\* register has one defining line, the map build_alias returns gives each
\* register reachable from a parameter load through cvta and 64-bit add
\* lines that parameter's name and holds no other register; it is a function
\* of the set of lines, not of their order.
C20_AliasTransitive ==
    (V3Returned /\ SingleDef) =>
        LET reached == Reach(Len(body))
        IN  \A r \in Regs3 :
                IF \E e \in reached : e[1] = r
                THEN <<r, alias[r]>> \in reached
                ELSE alias[r] = Absent

\* a chain of depth three written in reverse order; a register no line
\* writes has no alias
C20_Witness ==
    /\ V3Returned /\ SingleDef
    /\ body = <<Line("add64", <<6, 4>>), Line("add64", <<4, 3>>), Line("cvta", <<3, 1>>),
                Line("ldparam", <<1, ParamName(0)>>)>>
    /\ alias[6] = ParamName(0) /\ alias[4] = ParamName(0) /\ alias[7] = Absent

\* the names translate passes to phys, in call order
RECURSIVE Uses(_, _)
Uses(lines, i) ==
    IF i > Len(lines) THEN <<>> ELSE PhysOperands(lines[i]) \o Uses(lines, i + 1)

\* a name with no reserved slot: its alias root is not a key of param_phys
IsScratch(r) ==
    ~ \E k \in 0..(nparams - 1) :
          /\ nparams \in {2, 3, 4}
          /\ (IF alias[r] = Absent THEN r ELSE alias[r]) = ParamName(k)

\* the scratch names among the first i used, each once, in first-use order
RECURSIVE FirstUses(_, _)
FirstUses(us, i) ==
    IF i = 0 THEN <<>>
    ELSE LET before == FirstUses(us, i - 1)
         IN  IF IsScratch(us[i]) /\ \A j \in 1..Len(before) : before[j] # us[i]
             THEN Append(before, us[i]) ELSE before

\* the slot just above the highest reserved one
ScratchBase == IF nparams \in {2, 3, 4} THEN 2 * nparams ELSE 0

\* C21: scratch allocation. When translate returns, the k-th distinct scratch
\* name in first-use order has the slot ScratchBase + k - 1 (r4, r6, r8 upward
\* for 2, 3, 4 parameters, r0 upward otherwise), so distinct names have
\* distinct slots and none has a reserved slot 1, 3, 5 or 7 of the declared
\* parameters; every record carries, for each operand, the slot of its name
\* (a name keeps its slot at every later use).
C21_ScratchAllocation ==
    V3Returned =>
      LET us == Uses(body, 1)
          fu == FirstUses(us, Len(us))
      IN  /\ \A k \in 1..Len(fu) :
                /\ tr.rmap[fu[k]] = ScratchBase + k - 1
                /\ nparams \in {2, 3, 4} =>
                      tr.rmap[fu[k]] \notin { 2 * q + 1 : q \in 0..(nparams - 1) }
                /\ \A q \in 1..Len(fu) : q # k => tr.rmap[fu[q]] # tr.rmap[fu[k]]
          /\ \A j \in 1..Len(tr.insns) :
                LET ops == PhysOperands(tr.from[j])
                IN  tr.insns[j] =
                      BuildRecord(tr.from[j].kind, [i \in 1..Len(ops) |-> tr.rmap[ops[i]]])

\* a 3-parameter kernel that loads no parameter: five scratch names take r6
\* to r10 in first-use order, and the names used again carry the same slots
C21_Witness ==
    /\ V3Returned /\ nparams = 3
    /\ body = <<Line("ld", <<5, 1>>), Line("add", <<6, 5, 7>>), Line("sub", <<7, 8, 6>>)>>
    /\ tr.rmap[5] = 6 /\ tr.rmap[1] = 7 /\ tr.rmap[6] = 8 /\ tr.rmap[7] = 9
    /\ tr.rmap[8] = 10
    /\ tr.insns[3] = Record("VSUB", 9, 10, 8)

\* PTXParser().parse(text): the records, the dict and the name of the
\* ValueError of a parser that has parsed nothing before
RECURSIVE FreshParse(_, _, _, _)
FreshParse(map, ins, text, i) ==
    IF i > Len(text) THEN [map |-> map, ins |-> ins, raised |-> NoName]
    ELSE IF text[i].kind \in {"blank", "skip"} THEN FreshParse(map, ins, text, i + 1)
    ELSE LET r == try_parse_line(map, text[i])
         IN  IF r.raised # NoName THEN [map |-> r.map, ins |-> ins, raised |-> r.raised]
             ELSE FreshParse(r.map, IF r.ins = NoRecord THEN ins ELSE Append(ins, r.ins),
                             text, i + 1)

\* C22: no state survives a call. Whatever calls came before on the parser
\* instance (one that raised on the 17th name included), after any prefix of
\* the text the records and reg_map are those of a fresh parser on the same
\* prefix, and the call raises exactly when the fresh parser does: no name of
\* an earlier call holds a slot or counts toward the limit of 16.
C22_NoStateSurvives ==
    ptx_pc \in {"parsing", "returned", "raised"} =>
      LET f == FreshParse([n \in Names |-> Absent], <<>>, consumed, 1)
      IN  /\ instructions = f.ins
          /\ reg_map = f.map
          /\ ptx_err = f.raised
          /\ (ptx_pc = "raised") = (f.raised # NoName)

\* a third call, after a call that raised, has returned records whose first
\* names were numbered from 0 again
C22_Witness ==
    /\ prior_calls = 2 /\ prior_raised
    /\ ptx_pc = "returned"
    /\ Len(instructions) >= 2
    /\ instructions[1] = Record("FMAC", 0, 1, 2)
    /\ DictLen(reg_map) = 6

ComputeOps == {"VADD", "VSUB", "RELU", "VMUL", "FMAC"}

\* the record a matching line stands for, from the slots of its names
RecordOf(line) ==
    IF line.kind = "ret" THEN Record("HALT", 0, 0, 0)
    ELSE IF line.kind = "ld" THEN Record("LD", tr.rmap[line.args[1]], tr.rmap[line.args[2]], 0)
    ELSE IF line.kind = "st" THEN Record("ST", 0, tr.rmap[line.args[1]], tr.rmap[line.args[2]])
    ELSE IF line.kind = "max"
    THEN Record("RELU", tr.rmap[line.args[1]], tr.rmap[line.args[2]], 0)
    ELSE Record(Mnemonic3(line.kind), tr.rmap[line.args[1]], tr.rmap[line.args[2]],
                tr.rmap[line.args[3]])

IsMatching(line) ==
    line.kind \in {"ret", "ld", "st", "add", "sub", "max", "mul", "fma", "fmalit"}

\* the records of the first i lines in source order, a compute record left
\* out when an earlier line gave the same one
RECURSIVE OncePerCompute(_, _)
OncePerCompute(lines, i) ==
    IF i = 0 THEN <<>>
    ELSE LET before == OncePerCompute(lines, i - 1)
         IN  IF ~IsMatching(lines[i]) THEN before
             ELSE IF /\ RecordOf(lines[i]).op \in ComputeOps
                     /\ \E j \in 1..Len(before) : before[j] = RecordOf(lines[i])
                  THEN before
                  ELSE Append(before, RecordOf(lines[i]))

\* C23: each distinct compute record is emitted at most once. When translate
\* returns, no two VADD/VSUB/RELU/VMUL/FMAC records are equal, the LD, ST and
\* HALT records are as many as the ld, st and ret lines, and the records are
\* those of the matching lines in source order with every compute record that
\* an earlier line already gave left out.
C23_EmitOnce ==
    V3Returned =>
      /\ \A i, j \in 1..Len(tr.insns) :
            (i < j /\ tr.insns[i].op \in ComputeOps) => tr.insns[i] # tr.insns[j]
      /\ Cardinality({ j \in 1..Len(tr.insns) : tr.insns[j].op \notin ComputeOps })
            = Cardinality({ i \in 1..Len(body) : body[i].kind \in {"ld", "st", "ret"} })
      /\ tr.insns = OncePerCompute(body, Len(body))

\* a multiply, ret, the fma with a literal accumulator on the same registers
\* and a second ret: one VMUL record, two HALT records
C23_Witness ==
    /\ V3Returned
    /\ body = <<Line("mul", <<5, 6, 7>>), Line("ret", <<>>), Line("fmalit", <<5, 6, 7>>),
                Line("ret", <<>>)>>
    /\ Len(tr.insns) = 3
    /\ tr.insns[1].op = "VMUL" /\ tr.insns[2].op = "HALT" /\ tr.insns[3].op = "HALT"

====
